---- MODULE Spec2Model ----
\* neontestdb: a test helper that provisions a short-lived database branch
\* through a remote REST control plane, hands a connection URI to a test
\* body and deletes the branch afterwards.
\*
\* The client code (src/neontestdb.go) is modelled function by function; one
\* action is one HTTP round trip together with the code that handles its
\* response, or one call/return segment between two round trips.  The remote
\* service is the environment: a registry of branches that answers each request
\* with its regular status or with a fault.
EXTENDS Integers, Sequences, FiniteSets, TLC

\* ---------------------------------------------------------------- bounds
\* top-level calls one test process makes
MaxCalls == 2
\* locked (423) answers the remote gives to one CreateBranch call
MaxLocked == 11
\* the same, for each of two calls made at the same time
MaxLockedBoth == 1
\* connection URIs in one creation result
MaxURIs == 2

Procs == {1, 2}

\* ------------------------------------------------------------- constants
StatusOK == 200
StatusCreated == 201
StatusNotFound == 404
StatusConflict == 409
StatusLocked == 423
StatusServerError == 500
\* n.Client.Do returned err != nil: there is no response
TransportError == 0

\* time.Duration counts nanoseconds
Millisecond == 1000000
RetryStart == 10 * Millisecond
RetryLimit == 100 * Millisecond
\* "retry += 10": the untyped constant 10 is 10 time.Duration units
RetryIncrement == 10

\* ---------------------------------------------------------------- strings
\* A string is a sequence of one-character strings.
h1 == <<"h", "1">>
h2 == <<"h", "2">>
main == <<"m", "a", "i", "n">>
TestFoo == <<"T", "e", "s", "t", "F", "o", "o">>
TestFooCase1 == TestFoo \o <<"/", "c", "a", "s", "e", "1">>
TestFooCaseDot1 == TestFoo \o <<"/", "c", "a", "s", "e", ".", "1">>
TestFooCaseSub1 == TestFoo \o <<"/", "c", "a", "s", "e", "/", "1">>
h1TestFoo == h1 \o <<".">> \o TestFoo
h1TestFooCase1 == h1 \o <<".">> \o TestFoo \o <<".", "c", "a", "s", "e", "1">>

\* what os.Hostname() and t.Name() may yield
Hosts == {h1, h2}
Tests == {TestFoo, TestFooCase1, TestFooCaseDot1, TestFooCaseSub1}

\* fmt.Sprintf("%s.%s", a, b)
Sprintf(a, b) == a \o <<".">> \o b

\* strings.ReplaceAll(s, old, new) for one-character old and new
ReplaceAll(s, old, new) ==
    [i \in 1..Len(s) |-> IF s[i] = old THEN new ELSE s[i]]

\* a variant: strings.Replace(s, old, new, 1), only the first occurrence
ReplaceFirst(s, old, new) ==
    [i \in 1..Len(s) |->
        IF s[i] = old /\ \A j \in 1..(i - 1) : s[j] # old THEN new ELSE s[i]]

\* variants of BranchName: one slash replaced; the hostname left out
BranchNameFirstSlashOnly(hostname, test) ==
    ReplaceFirst(Sprintf(hostname, test), "/", ".")

BranchNameWithoutHost(hostname, test) == ReplaceAll(test, "/", ".")

\* the branch name UsingTestBranch derives
BranchName(hostname, test) == ReplaceAll(Sprintf(hostname, test), "/", ".")

\* the package variable defaultBranch, copied to Client.Branch by LoadClient
defaultBranch == main

\* ------------------------------------------------------ the remote registry
Digits == <<"1", "2", "3", "4", "5", "6", "7", "8", "9">>
\* the opaque identifier the remote gives its n-th branch
BranchID(n) == <<"b", "r", "-", Digits[n]>>

NoString == <<>>
\* a nil *Branch
NilBranch == [id |-> NoString, name |-> NoString, parent |-> NoString]
NilCreated == [branch |-> NilBranch, uris |-> <<>>]
\* a nil *Branches, and a decoded one
NilBranches == [nil |-> TRUE, list |-> <<>>]
NoResponse ==
    [method |-> "none", key |-> NoString, status |-> TransportError,
     ok |-> FALSE, body |-> NilBranch]

MainBranch == [id |-> BranchID(1), name |-> main, parent |-> NoString]
StaleBranch == [id |-> BranchID(2), name |-> h1TestFoo, parent |-> BranchID(1)]
OtherBranch == [id |-> BranchID(1), name |-> h1TestFooCase1, parent |-> NoString]
MainChild == [id |-> BranchID(2), name |-> main, parent |-> BranchID(1)]

\* the branch a URL path key addresses: an identifier or a name
Resolve(bs, k) ==
    IF \E b \in bs : b.id = k THEN CHOOSE b \in bs : b.id = k
    ELSE IF \E b \in bs : b.name = k THEN CHOOSE b \in bs : b.name = k
    ELSE NilBranch

IdNumber(id) == CHOOSE n \in 1..Len(Digits) : BranchID(n) = id

\* the listing, in order of creation
RECURSIVE Listing(_)
Listing(bs) ==
    IF bs = {} THEN <<>>
    ELSE LET first == CHOOSE b \in bs :
                          \A c \in bs : IdNumber(b.id) <= IdNumber(c.id)
         IN  <<first>> \o Listing(bs \ {first})

ConnectionURIs(id) == [i \in 1..MaxURIs |-> [branch |-> id, n |-> i]]

\* an answer that carries no usable result whatever the endpoint
Faults ==
    { [status |-> TransportError, ok |-> FALSE],
      [status |-> StatusLocked, ok |-> TRUE],
      [status |-> StatusServerError, ok |-> TRUE] }

\* GET /branches/{key}
RemoteGetBranch(bs, k) ==
    IF Resolve(bs, k) = NilBranch
    THEN {[status |-> StatusNotFound, ok |-> TRUE]} \cup Faults
    ELSE {[status |-> StatusOK, ok |-> TRUE], [status |-> StatusOK, ok |-> FALSE]}
         \cup Faults

\* GET /branches
RemoteGetBranches ==
    { [status |-> StatusOK, ok |-> TRUE], [status |-> StatusOK, ok |-> FALSE],
      [status |-> StatusNotFound, ok |-> TRUE] } \cup Faults

\* DELETE /branches/{key}
RemoteDeleteBranch(bs, k) ==
    IF Resolve(bs, k) = NilBranch
    THEN {[status |-> StatusNotFound, ok |-> TRUE]} \cup Faults
    ELSE {[status |-> StatusOK, ok |-> TRUE]} \cup Faults

\* POST /branches {name, parent_id}: the statuses that create a branch
RemoteCreates == {StatusOK, StatusCreated}

RemoteCreateBranch(bs, nm, parentId, mayLock) ==
    (IF \E b \in bs : b.name = nm
     THEN {[status |-> StatusConflict, ok |-> TRUE]}
     ELSE IF \A b \in bs : b.id # parentId
     THEN {[status |-> StatusNotFound, ok |-> TRUE]}
     ELSE {[status |-> s, ok |-> o] : s \in RemoteCreates, o \in BOOLEAN})
    \cup (IF mayLock THEN Faults ELSE {f \in Faults : f.status # StatusLocked})

\* ------------------------------------------------------------ client code
\* a variant of validateStatus: every status passes
validateStatusAcceptsAll(status, accepted) == TRUE

\* validateStatus returns (instead of ending the process) for these statuses
validateStatus(status, accepted) == status \in accepted

\* GetBranches and GetBranch: validateStatus(resp, http.StatusOK)
GetAccepted == {StatusOK}
\* a variant of DeleteAccepted: a locked answer passes too
DeleteAcceptedOrLocked == {StatusOK, StatusLocked}
\* DeleteBranch: validateStatus(resp, http.StatusOK)
DeleteAccepted == {StatusOK}
\* CreateBranch: validateStatus(resp, http.StatusOK, http.StatusCreated)
CreateAccepted == {StatusOK, StatusCreated}

\* CreateBranch: resp.StatusCode == http.StatusLocked
Retryable(status) == status = StatusLocked

\* a variant of LoopContinues: the loop has no bound
LoopForever(retry) == TRUE

\* a variant of LoopContinues: the loop gives up after four attempts
LoopShort(retry) == retry <= RetryStart + 3 * RetryIncrement

\* CreateBranch: the loop condition retry <= 100*time.Millisecond
LoopContinues(retry) == retry <= RetryLimit

\* CreateBranch: how many more times the loop body runs from this value of
\* retry when every request is answered 423: the values retry, retry + 10,
\* ... that are <= 100*time.Millisecond
AttemptsLeft(retry) == (RetryLimit - retry) \div RetryIncrement + 1

\* CreateBranch: the body of the creation request
CreateRequest(nm, par) == [name |-> nm, parent_id |-> par.id]

\* a variant of FirstMatch: the first listed branch, whatever its name
FirstListed(list, nm) == IF list = <<>> THEN NilBranch ELSE list[1]

\* GetBranchByName: the first listed branch whose Name is nm, or nil
FirstMatch(list, nm) ==
    IF \E i \in 1..Len(list) : list[i].name = nm
    THEN list[CHOOSE i \in 1..Len(list) :
                 list[i].name = nm /\ \A j \in 1..(i - 1) : list[j].name # nm]
    ELSE NilBranch

\* a variant of StaleFound: the stale branch is never deleted
StaleNever(b) == FALSE

\* ForcedCreateBranch: branch != nil
StaleFound(b) == b # NilBranch

\* a variant of FirstURI: the last element of the list
LastURI(c) == c.uris[Len(c.uris)]

\* UsingBranch: created.ConnectionURIs[0]
FirstURI(c) == c.uris[1]

\* variants of Cleanup: the flag is ignored
CleanupAlways(noCleanup) == TRUE

CleanupNever(noCleanup) == FALSE

\* UsingBranch: !n.NoCleanup
Cleanup(noCleanup) == ~noCleanup

\* a variant of DeferredCleanup: the cleanup is deferred
CleanupDeferred == TRUE

\* UsingBranch: whether the cleanup also runs when do() unwinds; it is a plain
\* statement after the call of do, not a deferred one
DeferredCleanup == FALSE

\* variants of CleanupKey: the parent's identifier, the name
CleanupKeyParent(c) == c.branch.parent

CleanupKeyByName(c) == c.branch.name

\* UsingBranch: the key of the cleanup delete, created.Branch.ID
CleanupKey(c) == c.branch.id

\* --------------------------------------------------------------- the state
VARIABLES
    branches,   \* remote: the project's branches
    nextId,     \* remote: number of the next identifier
    pc,         \* per process: where it is in the code
    stack,      \* per process: where the calls in progress return to
    op,         \* per process: the top-level call in progress
    budget,     \* per process: top-level calls it may still make
    name,       \* parameter name of UsingBranch/ForcedCreateBranch/CreateBranch
    key,        \* parameter name of GetBranch/DeleteBranch (the URL path key)
    want,       \* parameter name of GetBranchByName
    rBranch,    \* value returned by GetBranch/GetBranchByName
    rBranches,  \* value returned by GetBranches
    rCreated,   \* value returned by CreateBranch/ForcedCreateBranch
    parent,     \* CreateBranch: parent
    retry,      \* CreateBranch: retry
    created,    \* UsingBranch: created
    uri,        \* the ConnectionURI the callback was invoked with
    resp,       \* the response to the last request of the call in progress
    request,    \* the body of the last creation request
    posts,      \* creation requests CreateBranch has sent
    locked,     \* locked answers CreateBranch has received
    slept,      \* duration of the last time.Sleep of CreateBranch
    fresh,      \* ForcedCreateBranch was entered with its name not in use
    last        \* per process: the top-level call that returned last

remote == <<branches, nextId>>
control == <<pc, stack>>
args == <<name, key, want>>
rets == <<rBranch, rBranches, rCreated>>
retryLoop == <<retry, posts, locked, slept, request>>
vars == <<branches, nextId, pc, stack, op, budget, name, key, want, rBranch,
          rBranches, rCreated, parent, retry, created, uri, resp, request,
          posts, locked, slept, fresh, last>>

NoOp == [fn |-> "none", name |-> NoString, hostname |-> NoString,
         test |-> NoString, noCleanup |-> FALSE]
NoRequest == [name |-> NoString, parent_id |-> NoString]
NoURI == [branch |-> NoString, n |-> 0]
NoCall == [fn |-> "none", name |-> NoString, hostname |-> NoString,
           test |-> NoString, noCleanup |-> FALSE, fresh |-> FALSE,
           branch |-> NilBranch, created |-> NilCreated]

\* the names test code passes to the entry points that take one
Names == {main, h1TestFoo}

\* the project when the tests start: the parent branch alone; with a branch
\* a failed run left behind; without the parent; the parent not listed first
Registries ==
    { {MainBranch}, {MainBranch, StaleBranch}, {OtherBranch},
      {OtherBranch, MainChild} }

InitWith(b) ==
    /\ branches \in Registries
    /\ nextId = 3
    /\ pc = [p \in Procs |-> "idle"]
    /\ stack = [p \in Procs |-> <<>>]
    /\ op = [p \in Procs |-> NoOp]
    /\ budget = b
    /\ name = [p \in Procs |-> NoString]
    /\ key = [p \in Procs |-> NoString]
    /\ want = [p \in Procs |-> NoString]
    /\ rBranch = [p \in Procs |-> NilBranch]
    /\ rBranches = [p \in Procs |-> NilBranches]
    /\ rCreated = [p \in Procs |-> NilCreated]
    /\ parent = [p \in Procs |-> NilBranch]
    /\ retry = [p \in Procs |-> 0]
    /\ created = [p \in Procs |-> NilCreated]
    /\ uri = [p \in Procs |-> NoURI]
    /\ resp = [p \in Procs |-> NoResponse]
    /\ request = [p \in Procs |-> NoRequest]
    /\ posts = [p \in Procs |-> 0]
    /\ locked = [p \in Procs |-> 0]
    /\ slept = [p \in Procs |-> 0]
    /\ fresh = [p \in Procs |-> FALSE]
    /\ last = [p \in Procs |-> NoCall]

\* one test process at a time uses the project
Init == InitWith([p \in Procs |-> IF p = 1 THEN MaxCalls ELSE 0])

\* ------------------------------------------------------------- control flow
Goto(p, label) ==
    /\ pc' = [pc EXCEPT ![p] = label]
    /\ UNCHANGED stack

\* call: continue at label, come back to back
CallTo(p, label, back) ==
    /\ pc' = [pc EXCEPT ![p] = label]
    /\ stack' = [stack EXCEPT ![p] = <<back>> \o @]

Return(p) ==
    /\ pc' = [pc EXCEPT ![p] = Head(stack[p])]
    /\ stack' = [stack EXCEPT ![p] = Tail(@)]

\* log.Fatalf: the message is printed and the process exits
Fatal(p) == Goto(p, "fatal")

Respond(p, method, k, a, body) ==
    resp' = [resp EXCEPT ![p] = [method |-> method, key |-> k,
                                 status |-> a.status, ok |-> a.ok, body |-> body]]

\* the locked answers the service gives to one CreateBranch call: fewer when
\* both processes run tests
LockCap ==
    IF \A q \in Procs : budget[q] > 0 \/ op[q] # NoOp
    THEN MaxLockedBoth
    ELSE MaxLocked

\* ------------------------------------------------------------ entry points
Ops(bs) ==
    [fn : {"UsingTestBranch"}, name : {NoString}, hostname : Hosts,
     test : Tests, noCleanup : BOOLEAN]
    \cup [fn : {"UsingBranch"}, name : Names, hostname : {NoString},
          test : {NoString}, noCleanup : BOOLEAN]
    \cup [fn : {"ForcedCreateBranch", "CreateBranch", "GetBranchByName"},
          name : Names, hostname : {NoString}, test : {NoString},
          noCleanup : {FALSE}]
    \cup [fn : {"GetBranch", "DeleteBranch"},
          name : Names \cup {b.id : b \in bs}, hostname : {NoString},
          test : {NoString}, noCleanup : {FALSE}]
    \cup [fn : {"GetBranches"}, name : {NoString}, hostname : {NoString},
          test : {NoString}, noCleanup : {FALSE}]

\* the calls of concurrent tests: UsingBranch with a name of its own, the
\* parent's name or a name that reads like an identifier the service gives
\* out, and UsingTestBranch deriving a further name
UsingNames == {h1TestFoo, main, BranchID(3)}

UsingOps ==
    [fn : {"UsingBranch"}, name : UsingNames, hostname : {NoString},
     test : {NoString}, noCleanup : BOOLEAN]
    \cup [fn : {"UsingTestBranch"}, name : {NoString}, hostname : {h1},
          test : {TestFooCase1}, noCleanup : BOOLEAN]

\* test code calls a method of a Client that LoadClient built
CallOf(p, menu) ==
    /\ pc[p] = "idle"
    /\ budget[p] > 0
    /\ \E o \in menu :
        /\ op' = [op EXCEPT ![p] = o]
        /\ pc' = [pc EXCEPT ![p] = o.fn]
        /\ name' = [name EXCEPT ![p] =
              IF o.fn \in {"UsingBranch", "ForcedCreateBranch", "CreateBranch"}
              THEN o.name ELSE NoString]
        /\ key' = [key EXCEPT ![p] =
              IF o.fn \in {"GetBranch", "DeleteBranch"} THEN o.name ELSE NoString]
        /\ want' = [want EXCEPT ![p] =
              IF o.fn = "GetBranchByName" THEN o.name ELSE NoString]
    /\ stack' = [stack EXCEPT ![p] = <<"exit">>]
    /\ budget' = [budget EXCEPT ![p] = @ - 1]
    /\ rBranch' = [rBranch EXCEPT ![p] = NilBranch]
    /\ rBranches' = [rBranches EXCEPT ![p] = NilBranches]
    /\ rCreated' = [rCreated EXCEPT ![p] = NilCreated]
    /\ parent' = [parent EXCEPT ![p] = NilBranch]
    /\ retry' = [retry EXCEPT ![p] = 0]
    /\ created' = [created EXCEPT ![p] = NilCreated]
    /\ uri' = [uri EXCEPT ![p] = NoURI]
    /\ resp' = [resp EXCEPT ![p] = NoResponse]
    /\ request' = [request EXCEPT ![p] = NoRequest]
    /\ posts' = [posts EXCEPT ![p] = 0]
    /\ locked' = [locked EXCEPT ![p] = 0]
    /\ slept' = [slept EXCEPT ![p] = 0]
    /\ fresh' = [fresh EXCEPT ![p] = FALSE]
    /\ UNCHANGED <<remote, last>>

Call(p) == CallOf(p, Ops(branches))

CallUsing(p) == CallOf(p, UsingOps)

\* the method called by the test code returns to it
Exit(p) ==
    /\ pc[p] = "exit"
    /\ last' = [last EXCEPT ![p] =
          [fn |-> op[p].fn,
           name |-> IF op[p].fn \in {"GetBranch", "DeleteBranch"} THEN key[p]
                    ELSE IF op[p].fn = "GetBranchByName" THEN want[p]
                    ELSE name[p],
           hostname |-> op[p].hostname, test |-> op[p].test,
           noCleanup |-> op[p].noCleanup, fresh |-> fresh[p],
           branch |-> rBranch[p], created |-> rCreated[p]]]
    /\ pc' = [pc EXCEPT ![p] = "idle"]
    /\ UNCHANGED <<remote, stack, op, budget, args, rets, parent, created, uri,
                   resp, retryLoop, fresh>>

UsingTestBranch(p) ==
    /\ pc[p] = "UsingTestBranch"
    /\ name' = [name EXCEPT ![p] = BranchName(op[p].hostname, op[p].test)]
    /\ Goto(p, "UsingBranch")
    /\ UNCHANGED <<remote, op, budget, key, want, rets, parent, created, uri,
                   resp, retryLoop, fresh, last>>

\* created := n.ForcedCreateBranch(name)
UsingBranch(p) ==
    /\ pc[p] = "UsingBranch"
    /\ CallTo(p, "ForcedCreateBranch", "UB_created")
    /\ UNCHANGED <<remote, op, budget, args, rets, parent, created, uri, resp,
                   retryLoop, fresh, last>>

\* do(created.ConnectionURIs[0]): the callback starts
UB_created(p) ==
    /\ pc[p] = "UB_created"
    /\ created' = [created EXCEPT ![p] = rCreated[p]]
    /\ uri' = [uri EXCEPT ![p] = FirstURI(rCreated[p])]
    /\ Goto(p, "UB_do")
    /\ UNCHANGED <<remote, op, budget, args, rets, parent, resp, retryLoop,
                   fresh, last>>

\* the callback ends: it returns, panics, or ends its goroutine (t.FailNow);
\* after a return the branch is deleted unless n.NoCleanup
UB_do(p) ==
    /\ pc[p] = "UB_do"
    /\ \/ /\ IF Cleanup(op[p].noCleanup)
             THEN /\ key' = [key EXCEPT ![p] = CleanupKey(created[p])]
                  /\ Goto(p, "DeleteBranch")
             ELSE /\ Return(p)
                  /\ UNCHANGED key
       \/ \E end \in {"panic", "goexit"} :
             IF DeferredCleanup /\ Cleanup(op[p].noCleanup)
             THEN /\ key' = [key EXCEPT ![p] = CleanupKey(created[p])]
                  /\ CallTo(p, "DeleteBranch", end)
             ELSE /\ Goto(p, end)
                  /\ UNCHANGED key
    /\ UNCHANGED <<remote, op, budget, name, want, rets, parent, created, uri,
                   resp, retryLoop, fresh, last>>

\* if branch := n.GetBranch(name); ...
ForcedCreateBranch(p) ==
    /\ pc[p] = "ForcedCreateBranch"
    /\ key' = [key EXCEPT ![p] = name[p]]
    /\ fresh' = [fresh EXCEPT ![p] = Resolve(branches, name[p]) = NilBranch]
    /\ CallTo(p, "GetBranch", "FCB_got")
    /\ UNCHANGED <<remote, op, budget, name, want, rets, parent, created, uri,
                   resp, retryLoop, last>>

\* ... branch != nil { n.DeleteBranch(name) }; return n.CreateBranch(name)
FCB_got(p) ==
    /\ pc[p] = "FCB_got"
    /\ IF StaleFound(rBranch[p])
       THEN /\ key' = [key EXCEPT ![p] = name[p]]
            /\ CallTo(p, "DeleteBranch", "CreateBranch")
       ELSE /\ Goto(p, "CreateBranch")
            /\ UNCHANGED key
    /\ UNCHANGED <<remote, op, budget, name, want, rets, parent, created, uri,
                   resp, retryLoop, fresh, last>>

\* ------------------------------------------------------- registry client
GetBranch(p) ==
    /\ pc[p] = "GetBranch"
    /\ \E a \in RemoteGetBranch(branches, key[p]) :
        LET body == Resolve(branches, key[p]) IN
        /\ Respond(p, "GET", key[p], a, body)
        /\ IF a.status = TransportError
           THEN Fatal(p) /\ UNCHANGED rBranch
           ELSE IF a.status = StatusNotFound
           THEN Return(p) /\ rBranch' = [rBranch EXCEPT ![p] = NilBranch]
           ELSE IF ~validateStatus(a.status, GetAccepted)
           THEN Fatal(p) /\ UNCHANGED rBranch
           ELSE IF ~a.ok
           THEN Fatal(p) /\ UNCHANGED rBranch
           ELSE Return(p) /\ rBranch' = [rBranch EXCEPT ![p] = body]
    /\ UNCHANGED <<remote, op, budget, args, rBranches, rCreated, parent,
                   created, uri, retryLoop, fresh, last>>

GetBranches(p) ==
    /\ pc[p] = "GetBranches"
    /\ \E a \in RemoteGetBranches :
        LET body == [nil |-> FALSE, list |-> Listing(branches)] IN
        /\ Respond(p, "LIST", NoString, a, body)
        /\ IF a.status = TransportError
           THEN Fatal(p) /\ UNCHANGED rBranches
           ELSE IF a.status = StatusNotFound
           THEN Return(p) /\ rBranches' = [rBranches EXCEPT ![p] = NilBranches]
           ELSE IF ~validateStatus(a.status, GetAccepted)
           THEN Fatal(p) /\ UNCHANGED rBranches
           ELSE IF ~a.ok
           THEN Fatal(p) /\ UNCHANGED rBranches
           ELSE Return(p) /\ rBranches' = [rBranches EXCEPT ![p] = body]
    /\ UNCHANGED <<remote, op, budget, args, rBranch, rCreated, parent,
                   created, uri, retryLoop, fresh, last>>

\* for _, branch := range n.GetBranches().Branches: the call
GetBranchByName(p) ==
    /\ pc[p] = "GetBranchByName"
    /\ CallTo(p, "GetBranches", "GBN_scan")
    /\ UNCHANGED <<remote, op, budget, args, rets, parent, created, uri, resp,
                   retryLoop, fresh, last>>

\* ... the scan; reading .Branches of a nil *Branches panics
GBN_scan(p) ==
    /\ pc[p] = "GBN_scan"
    /\ IF rBranches[p].nil
       THEN /\ Goto(p, "panic")
            /\ UNCHANGED rBranch
       ELSE /\ rBranch' = [rBranch EXCEPT ![p] =
                               FirstMatch(rBranches[p].list, want[p])]
            /\ Return(p)
    /\ UNCHANGED <<remote, op, budget, args, rBranches, rCreated, parent,
                   created, uri, resp, retryLoop, fresh, last>>

\* parent := n.GetBranchByName(n.Branch): the call
CreateBranch(p) ==
    /\ pc[p] = "CreateBranch"
    /\ want' = [want EXCEPT ![p] = defaultBranch]
    /\ CallTo(p, "GetBranchByName", "CB_parent")
    /\ UNCHANGED <<remote, op, budget, name, key, rets, parent, created, uri,
                   resp, retryLoop, fresh, last>>

\* if parent == nil { log.Fatalf }; start := time.Now(); retry := 10ms
CB_parent(p) ==
    /\ pc[p] = "CB_parent"
    /\ parent' = [parent EXCEPT ![p] = rBranch[p]]
    /\ IF rBranch[p] = NilBranch
       THEN /\ Fatal(p)
            /\ UNCHANGED retry
       ELSE /\ retry' = [retry EXCEPT ![p] = RetryStart]
            /\ Goto(p, "CB_post")
    /\ UNCHANGED <<remote, op, budget, args, rets, created, uri, resp, request,
                   posts, locked, slept, fresh, last>>

\* one iteration of the loop up to "continue": send the creation request
\* and, on a locked answer, sleep, add to retry and test the loop condition
CB_post(p) ==
    /\ pc[p] = "CB_post"
    /\ LET create == CreateRequest(name[p], parent[p]) IN
       \E a \in RemoteCreateBranch(branches, create.name, create.parent_id,
                                   locked[p] < LockCap) :
        LET new == [id |-> BranchID(nextId), name |-> create.name,
                    parent |-> create.parent_id]
            body == [branch |-> new, uris |-> ConnectionURIs(new.id)]
            creates == a.status \in RemoteCreates
        IN
        /\ request' = [request EXCEPT ![p] = create]
        /\ posts' = [posts EXCEPT ![p] = @ + 1]
        /\ branches' = IF creates THEN branches \cup {new} ELSE branches
        /\ nextId' = IF creates THEN nextId + 1 ELSE nextId
        /\ Respond(p, "POST", NoString, a, IF creates THEN body ELSE NilCreated)
        /\ IF a.status = TransportError
           THEN Fatal(p) /\ UNCHANGED <<retry, locked, slept>>
           ELSE IF Retryable(a.status)
           THEN /\ slept' = [slept EXCEPT ![p] = retry[p]]
                /\ locked' = [locked EXCEPT ![p] = @ + 1]
                /\ retry' = [retry EXCEPT ![p] = @ + RetryIncrement]
                /\ IF LoopContinues(retry[p] + RetryIncrement)
                   THEN Goto(p, "CB_post")
                   ELSE Fatal(p)
           ELSE Goto(p, "CB_result") /\ UNCHANGED <<retry, locked, slept>>
    /\ UNCHANGED <<op, budget, args, rets, parent, created, uri, fresh, last>>

\* the rest of the loop when the service answers 423 to this request and to
\* every later one: all the iterations the loop still has, taken as one step
\* (each one posts, sleeps and adds to retry), then the loop condition
CB_lockedOut(p) ==
    /\ pc[p] = "CB_post"
    /\ LET create == CreateRequest(name[p], parent[p])
           n == AttemptsLeft(retry[p])
           end == retry[p] + n * RetryIncrement
       IN
        /\ request' = [request EXCEPT ![p] = create]
        /\ posts' = [posts EXCEPT ![p] = @ + n]
        /\ locked' = [locked EXCEPT ![p] = @ + n]
        /\ slept' = [slept EXCEPT ![p] = end - RetryIncrement]
        /\ retry' = [retry EXCEPT ![p] = end]
        /\ Respond(p, "POST", NoString,
                   [status |-> StatusLocked, ok |-> TRUE], NilCreated)
        /\ IF LoopContinues(end) THEN Goto(p, "CB_post") ELSE Fatal(p)
    /\ UNCHANGED <<remote, op, budget, args, rets, parent, created, uri,
                   fresh, last>>

\* the rest of the iteration: validateStatus(resp, 200, 201) and
\* return parseResponse[BranchCreated](resp); the locals of the call end here
CB_result(p) ==
    /\ pc[p] = "CB_result"
    /\ IF ~validateStatus(resp[p].status, CreateAccepted)
       THEN Fatal(p) /\ UNCHANGED <<rCreated, retryLoop>>
       ELSE IF ~resp[p].ok
       THEN Fatal(p) /\ UNCHANGED <<rCreated, retryLoop>>
       ELSE /\ rCreated' = [rCreated EXCEPT ![p] = resp[p].body]
            /\ retry' = [retry EXCEPT ![p] = 0]
            /\ posts' = [posts EXCEPT ![p] = 0]
            /\ locked' = [locked EXCEPT ![p] = 0]
            /\ slept' = [slept EXCEPT ![p] = 0]
            /\ UNCHANGED request
            /\ Return(p)
    /\ UNCHANGED <<remote, op, budget, args, rBranch, rBranches, parent,
                   created, uri, resp, fresh, last>>

DeleteBranch(p) ==
    /\ pc[p] = "DeleteBranch"
    /\ \E a \in RemoteDeleteBranch(branches, key[p]) :
        /\ Respond(p, "DELETE", key[p], a, Resolve(branches, key[p]))
        /\ branches' = IF a.status = StatusOK
                       THEN branches \ {Resolve(branches, key[p])}
                       ELSE branches
        /\ IF a.status = TransportError
           THEN Fatal(p)
           ELSE IF ~validateStatus(a.status, DeleteAccepted)
           THEN Fatal(p)
           ELSE Return(p)
    /\ UNCHANGED <<nextId, op, budget, args, rets, parent, created, uri,
                   retryLoop, fresh, last>>

\* -------------------------------------------------------- the specification
Run(p) ==
    \/ Exit(p)
    \/ UsingTestBranch(p)
    \/ UsingBranch(p)
    \/ UB_created(p)
    \/ UB_do(p)
    \/ ForcedCreateBranch(p)
    \/ FCB_got(p)
    \/ GetBranch(p)
    \/ GetBranches(p)
    \/ GetBranchByName(p)
    \/ GBN_scan(p)
    \/ CreateBranch(p)
    \/ CB_parent(p)
    \/ CB_post(p)
    \/ CB_result(p)
    \/ DeleteBranch(p)

Step(p) == Call(p) \/ Run(p)

Next == \E p \in Procs : Step(p)

Spec == Init /\ [][Next]_vars

\* one call by one process, with a service that may stay locked for good;
\* a process that can take a step takes one (every HTTP request returns)
InitOne == InitWith([p \in Procs |-> IF p = 1 THEN 1 ELSE 0])

StepLocked(p) == Step(p) \/ CB_lockedOut(p)

NextLocked == \E p \in Procs : StepLocked(p)

\* two tests at once, one UsingBranch/UsingTestBranch call each
InitBoth ==
    /\ InitWith([p \in Procs |-> 1])
    /\ branches \in {{MainBranch}, {MainBranch, StaleBranch}}

NextUsing == \E p \in Procs : CallUsing(p) \/ Run(p)

ConcSpec == InitBoth /\ [][NextUsing]_vars

FairSpec ==
    /\ InitOne
    /\ [][NextLocked]_vars
    /\ \A p \in Procs : WF_vars(StepLocked(p))

\* ------------------------------------------------------------------ claims
UsingFns == {"UsingBranch", "UsingTestBranch"}
ForcedFns == UsingFns \cup {"ForcedCreateBranch"}

\* the top-level call of p has returned to the test code
Returned(p) == pc[p] = "exit"

NamedLike(nm) == {b \in branches : b.name = nm}

\* C1: when UsingBranch returns on a client that does not suppress cleanup,
\* its last request was a DELETE addressed by the identifier of the branch it
\* created, answered 200, and no branch of the project answers to the name.
C1_CleanupDeletesCreated ==
    \A p \in Procs :
        (Returned(p) /\ op[p].fn \in UsingFns /\ ~op[p].noCleanup) =>
            /\ created[p] # NilCreated
            /\ resp[p].method = "DELETE"
            /\ resp[p].key = created[p].branch.id
            /\ resp[p].status = StatusOK
            /\ Resolve(branches, name[p]) = NilBranch

C1_Witness ==
    \E p \in Procs :
        /\ Returned(p) /\ op[p].fn = "UsingBranch" /\ ~op[p].noCleanup
        /\ name[p] = h1TestFoo

\* C2: ForcedCreateBranch (alone or inside UsingBranch) is never answered
\* "conflict" (the name exists); when it returns exactly one branch has the
\* name and it is the returned one; and when it follows a ForcedCreateBranch
\* of the same name, its lookup yields the branch the first call returned and
\* that branch is gone before a creation request is sent.
C2_ForcedCreateTwice ==
    \A p \in Procs :
        /\ (op[p].fn \in ForcedFns /\ resp[p].method = "POST") =>
               resp[p].status # StatusConflict
        /\ (Returned(p) /\ op[p].fn = "ForcedCreateBranch") =>
               /\ NamedLike(name[p]) = {rCreated[p].branch}
               /\ rCreated[p].branch.name = name[p]
        /\ (/\ pc[p] # "idle"
            /\ op[p].fn = "ForcedCreateBranch"
            /\ last[p].fn = "ForcedCreateBranch"
            /\ last[p].name = name[p]) =>
               /\ pc[p] = "FCB_got" => rBranch[p] = last[p].created.branch
               /\ resp[p].method = "POST" => last[p].created.branch \notin branches

C2_Witness ==
    \E p \in Procs :
        /\ Returned(p) /\ op[p].fn = "ForcedCreateBranch"
        /\ last[p].fn = "ForcedCreateBranch" /\ last[p].name = name[p]
        /\ rCreated[p].branch # last[p].created.branch

\* p returns from the function it is in to that function's caller
Returns(p) ==
    /\ pc'[p] = Head(stack[p])
    /\ stack'[p] = Tail(stack[p])

C3_Step(p) ==
    /\ (/\ pc[p] = "CB_post"
        /\ posts'[p] = posts[p] + 1
        /\ resp'[p].status = StatusLocked
        /\ locked'[p] < 10) =>
           /\ pc'[p] = "CB_post"
           /\ slept'[p] > 0
           /\ rCreated'[p] = NilCreated
    /\ (/\ pc[p] = "CB_post"
        /\ posts'[p] = posts[p] + 1
        /\ resp'[p].status \in {StatusOK, StatusCreated}
        /\ locked[p] < 10) =>
           pc'[p] = "CB_result"
    /\ (/\ pc[p] = "CB_result"
        /\ resp[p].status \in {StatusOK, StatusCreated}
        /\ resp[p].ok
        /\ locked[p] < 10) =>
           /\ Returns(p)
           /\ rCreated'[p] = resp[p].body
           /\ rCreated'[p].branch \in branches
           /\ rCreated'[p].branch.name = name[p]

\* C3: while fewer than 10 creation requests of a CreateBranch call have been
\* answered "locked", a locked answer makes the call sleep and stay in its
\* loop, and an answer of 200 or 201 makes it return the creation result of
\* that answer: the call does not end fatally.
C3_RetriesThroughLock == [][\A p \in Procs : C3_Step(p)]_vars

C3_Witness ==
    \E p \in Procs :
        /\ pc[p] = "CB_result"
        /\ locked[p] = 9
        /\ posts[p] = 10
        /\ resp[p].status = StatusCreated /\ resp[p].ok

\* C4: one CreateBranch call sends at most 10 creation requests.
C4_AtMostTenPosts == \A p \in Procs : posts[p] <= 10

\* C5: the sleep after the k-th consecutive locked answer lasts k x 10ms,
\* and never more than 100ms.
C5_BackoffGrowsByTenMs ==
    \A p \in Procs :
        locked[p] >= 1 =>
            /\ slept[p] = locked[p] * 10 * Millisecond
            /\ slept[p] <= 100 * Millisecond

\* C6: when GetBranch(name) returns right after a ForcedCreateBranch(name)
\* that was entered with the name not in use, it returns a branch, of that
\* name, whose parent is the branch named as the client's default branch.
C6_ForcedCreateThenGet ==
    \A p \in Procs :
        (/\ Returned(p)
         /\ op[p].fn = "GetBranch"
         /\ last[p].fn = "ForcedCreateBranch"
         /\ last[p].fresh
         /\ last[p].name = key[p]) =>
            /\ rBranch[p] # NilBranch
            /\ rBranch[p].name = key[p]
            /\ \E b \in branches :
                   b.name = defaultBranch /\ b.id = rBranch[p].parent

C6_Witness ==
    \E p \in Procs :
        /\ Returned(p)
        /\ op[p].fn = "GetBranch"
        /\ last[p].fn = "ForcedCreateBranch"
        /\ last[p].fresh
        /\ last[p].name = key[p]
        /\ OtherBranch \in branches

\* C7: when UsingBranch returns on a client that suppresses cleanup, its last
\* request was the creation request (no delete followed the callback) and the
\* branch it created is in the project.
C7_NoCleanupKeepsBranch ==
    \A p \in Procs :
        (Returned(p) /\ op[p].fn \in UsingFns /\ op[p].noCleanup) =>
            /\ created[p] # NilCreated
            /\ resp[p].method = "POST"
            /\ created[p].branch \in branches
            /\ created[p].branch.name = name[p]

C7_Witness ==
    \E p \in Procs :
        /\ Returned(p) /\ op[p].fn = "UsingBranch" /\ op[p].noCleanup
        /\ last[p].fn = "UsingBranch" /\ last[p].noCleanup
        /\ last[p].name = name[p]

\* the call of UsingTestBranch in progress has derived its branch name
Derived(p) ==
    op[p].fn = "UsingTestBranch" /\ pc[p] \notin {"idle", "UsingTestBranch"}

HasSlash(s) == \E i \in 1..Len(s) : s[i] = "/"
HasDot(s) == \E i \in 1..Len(s) : s[i] = "."

\* C8: the name UsingTestBranch hands to UsingBranch is "<hostname>.<test
\* name>" with each slash turned into a dot; it has no slash; it is the name
\* the previous invocation with the same hostname and test name derived; and
\* on host "h1", "TestFoo" gives "h1.TestFoo" and "TestFoo/case1" gives
\* "h1.TestFoo.case1".
C8_DerivedName ==
    \A p \in Procs :
        Derived(p) =>
            LET joined == op[p].hostname \o <<".">> \o op[p].test IN
            /\ Len(name[p]) = Len(joined)
            /\ \A i \in 1..Len(joined) :
                   name[p][i] = IF joined[i] = "/" THEN "." ELSE joined[i]
            /\ ~HasSlash(name[p])
            /\ (/\ last[p].fn = "UsingTestBranch"
                /\ last[p].hostname = op[p].hostname
                /\ last[p].test = op[p].test) => last[p].name = name[p]
            /\ (op[p].hostname = <<"h", "1">> /\ op[p].test = TestFoo) =>
                   name[p] = <<"h", "1", ".", "T", "e", "s", "t", "F", "o", "o">>
            /\ (op[p].hostname = <<"h", "1">> /\ op[p].test = TestFooCase1) =>
                   name[p] = <<"h", "1", ".", "T", "e", "s", "t", "F", "o", "o",
                               ".", "c", "a", "s", "e", "1">>

C8_Witness ==
    \E p \in Procs :
        /\ Derived(p)
        /\ pc[p] = "UsingBranch"
        /\ op[p].hostname = h1 /\ op[p].test = TestFooCase1
        /\ last[p].fn = "UsingTestBranch"
        /\ last[p].hostname = h1 /\ last[p].test = TestFooCase1

\* C9 as claimed: two invocations that differ in the hostname or in the test
\* name derive different branch names.
C9_DistinctNames ==
    \A p \in Procs :
        (/\ Derived(p)
         /\ last[p].fn = "UsingTestBranch"
         /\ <<last[p].hostname, last[p].test>> # <<op[p].hostname, op[p].test>>)
        => last[p].name # name[p]

\* C9 as amended: two invocations that differ in the hostname or in the test
\* name, whose hostnames hold no dot and no slash and whose test names hold
\* no dot, derive different branch names.
C9_DistinctNamesWithoutDots ==
    \A p \in Procs :
        (/\ Derived(p)
         /\ last[p].fn = "UsingTestBranch"
         /\ <<last[p].hostname, last[p].test>> # <<op[p].hostname, op[p].test>>
         /\ ~HasDot(op[p].hostname) /\ ~HasSlash(op[p].hostname)
         /\ ~HasDot(last[p].hostname) /\ ~HasSlash(last[p].hostname)
         /\ ~HasDot(op[p].test) /\ ~HasDot(last[p].test))
        => last[p].name # name[p]

C9_Witness ==
    \E p \in Procs :
        /\ Derived(p)
        /\ last[p].fn = "UsingTestBranch"
        /\ last[p].hostname # op[p].hostname
        /\ last[p].test = TestFooCaseSub1 /\ op[p].test = TestFooCaseSub1

\* p sends a request in this step
Sends(p, label) ==
    /\ pc[p] = label
    /\ pc'[p] # pc[p] \/ posts'[p] # posts[p]

Dies(p) == pc'[p] = "fatal" /\ stack'[p] = stack[p]

C10_Step(p) ==
    /\ Sends(p, "GetBranch") =>
          /\ resp'[p].method = "GET"
          /\ resp'[p].status = StatusNotFound =>
                 Returns(p) /\ rBranch'[p] = NilBranch
          /\ (resp'[p].status = StatusOK /\ resp'[p].ok) =>
                 Returns(p) /\ rBranch'[p] = resp'[p].body
          /\ resp'[p].status \notin {StatusOK, StatusNotFound} => Dies(p)
          /\ Returns(p) \/ Dies(p)
    /\ Sends(p, "GetBranches") =>
          /\ resp'[p].method = "LIST"
          /\ resp'[p].status = StatusNotFound =>
                 Returns(p) /\ rBranches'[p] = NilBranches
          /\ (resp'[p].status = StatusOK /\ resp'[p].ok) =>
                 Returns(p) /\ rBranches'[p] = resp'[p].body
          /\ resp'[p].status \notin {StatusOK, StatusNotFound} => Dies(p)
          /\ Returns(p) \/ Dies(p)
    /\ Sends(p, "DeleteBranch") =>
          /\ resp'[p].method = "DELETE"
          /\ resp'[p].status = StatusOK => Returns(p)
          /\ resp'[p].status # StatusOK => Dies(p)
    /\ Sends(p, "CB_post") =>
          /\ resp'[p].method = "POST"
          /\ posts'[p] = posts[p] + 1
          /\ resp'[p].status = StatusLocked <=> locked'[p] = locked[p] + 1
          /\ resp'[p].status = StatusLocked => pc'[p] \in {"CB_post", "fatal"}
          /\ resp'[p].status # StatusLocked => pc'[p] \in {"CB_result", "fatal"}
          /\ rCreated'[p] = NilCreated
    /\ pc[p] = "CB_result" =>
          /\ resp'[p] = resp[p]
          /\ (resp[p].status \in {StatusOK, StatusCreated} /\ resp[p].ok) =>
                 Returns(p) /\ rCreated'[p] = resp[p].body
          /\ resp[p].status \notin {StatusOK, StatusCreated} => Dies(p)
          /\ Returns(p) \/ Dies(p)
    /\ pc[p] = "fatal" =>
          /\ pc'[p] = "fatal"
          /\ resp'[p] = resp[p]

\* C10: GetBranch and GetBranches return absence on 404 and the decoded body
\* on 200, and end the process on any other status; DeleteBranch returns on
\* 200 and ends the process otherwise; CreateBranch sends a further request
\* only after 423, returns the decoded body on 200 or 201 and ends the process
\* on any other status; a process that ended sends nothing.
C10_UnexpectedStatusIsFatal == [][\A p \in Procs : C10_Step(p)]_vars

C10_Witness ==
    \E p \in Procs :
        /\ pc[p] = "fatal"
        /\ op[p].fn = "UsingBranch"
        /\ resp[p].method = "DELETE"
        /\ resp[p].status = StatusLocked
        /\ created[p] # NilCreated

\* p is inside CreateBranch and its listing of the project has been answered
\* the way the service answers a listing: 200 with a list, or 404
ParentListed(p) ==
    /\ name[p] # NoString
    /\ want[p] = defaultBranch
    /\ resp[p].method = "LIST"
    /\ \/ resp[p].status = StatusOK /\ resp[p].ok
       \/ resp[p].status = StatusNotFound

\* C11: whenever the project has no branch whose name is the configured parent
\* name, CreateBranch ends the process with the fatal error naming the missing
\* parent (the end reached from the parent check, after the listing) and has
\* sent no creation request.
C11_MissingParentIsFatal ==
    \A p \in Procs :
        (/\ ParentListed(p)
         /\ NamedLike(defaultBranch) = {}
         /\ pc[p] \notin {"GBN_scan", "CB_parent"}) =>
            /\ pc[p] = "fatal"
            /\ parent[p] = NilBranch
            /\ posts[p] = 0

\* p is inside a CreateBranch call that has neither returned nor died
InCreate(p) ==
    /\ pc[p] \notin {"idle", "exit", "fatal", "panic", "goexit"}
    /\ \/ pc[p] \in {"CreateBranch", "CB_parent", "CB_post", "CB_result"}
       \/ \E i \in 1..Len(stack[p]) : stack[p][i] = "CB_parent"

C12_Step(p) ==
    \* all the remaining requests answered 423: the call ends the process
    /\ (pc[p] = "CB_post" /\ posts'[p] > posts[p] + 1) =>
          /\ Dies(p)
          /\ resp'[p].status = StatusLocked
          /\ branches' = branches
    \* a creation result is returned only from a 200 or 201 answer
    /\ rCreated'[p] # rCreated[p] =>
          /\ pc[p] = "CB_result"
          /\ Returns(p)
          /\ resp[p].method = "POST"
          /\ resp[p].status \in {StatusOK, StatusCreated}
          /\ rCreated'[p] = resp[p].body
    \* leaving the loop: with that result, or by ending the process
    /\ (pc[p] \in {"CB_post", "CB_result"} /\ ~InCreate(p)') =>
          \/ Dies(p)
          \/ rCreated'[p] # rCreated[p]

\* C12: every CreateBranch call terminates when each HTTP request returns: it
\* returns or ends the process, it never stays in the loop for ever; when
\* every creation request is answered 423 it runs out of attempts and ends
\* the process; it returns a creation result only after a 200 or 201 answer.
C12_CreateTerminates ==
    /\ \A p \in Procs : InCreate(p) ~> ~InCreate(p)
    /\ [][\A p \in Procs : C12_Step(p)]_vars

C12_Witness ==
    \E p \in Procs :
        /\ pc[p] = "fatal"
        /\ op[p].fn = "CreateBranch"
        /\ resp[p].method = "POST"
        /\ resp[p].status = StatusLocked
        /\ locked[p] = posts[p]
        /\ retry[p] > RetryLimit

\* the callback of p's UsingBranch has been invoked
Invoked(p) == uri[p] # NoURI

C13_State(p) ==
    op[p].fn \in UsingFns =>
        \* invoked only with a creation result, and with its first URI
        /\ Invoked(p) =>
              /\ created[p] # NilCreated
              /\ created[p].branch.name = name[p]
              /\ uri[p] = created[p].uris[1]
        \* no delete after the creation while the callback has not returned
        /\ pc[p] \in {"UB_created", "UB_do"} => resp[p].method = "POST"
        \* an invocation that died before or in the creation never invoked it
        /\ (pc[p] = "fatal" /\ created[p] = NilCreated) => ~Invoked(p)
        \* an invocation that returned has invoked it
        /\ Returned(p) => Invoked(p)

C13_Step(p) ==
    (op[p].fn \in UsingFns /\ pc[p] # "idle") =>
        \* the one invocation: after force-create returned the result of a
        \* 200 or 201 answer, never a second time
        /\ uri'[p] # uri[p] =>
              /\ pc[p] = "UB_created"
              /\ ~Invoked(p)
              /\ resp[p].method = "POST"
              /\ resp[p].status \in {StatusOK, StatusCreated}
              /\ created'[p] = resp[p].body
              /\ uri'[p] = resp[p].body.uris[1]
              /\ pc'[p] = "UB_do"
        \* the cleanup delete is entered from the return of the callback only
        /\ (pc'[p] = "DeleteBranch" /\ pc[p] # "DeleteBranch"
            /\ Head(stack'[p]) = "exit") =>
              /\ pc[p] = "UB_do"
              /\ Invoked(p)
              /\ key'[p] = created[p].branch.id
        \* nothing between the return of force-create and the callback
        /\ pc[p] = "UB_created" => pc'[p] = "UB_do"

\* C13: each UsingBranch is force-create, then the callback, then the delete:
\* the callback is invoked once, only after the creation request succeeded,
\* with the first connection URI of the creation result; the cleanup delete
\* is issued only after the callback returned; the callback is not invoked
\* when force-create ended the process.
C13_CreateCallbackDelete ==
    /\ [](\A p \in Procs : C13_State(p))
    /\ [][\A p \in Procs : C13_Step(p)]_vars

C13_Witness ==
    \E p \in Procs :
        /\ Returned(p)
        /\ op[p].fn = "UsingBranch"
        /\ resp[p].method = "DELETE"
        /\ resp[p].status = StatusOK
        /\ resp[p].key = created[p].branch.id
        /\ Len(created[p].uris) > 1
        /\ uri[p] = created[p].uris[1]

\* p is in the ForcedCreateBranch of its call, before its CreateBranch
InForced(p) == op[p].fn \in ForcedFns /\ pc[p] # "idle"

\* the answer p holds is the lookup GetBranch(name)
LookedUp(p) == resp[p].method = "GET" /\ resp[p].key = name[p]

C14_State(p) ==
    (InForced(p) /\ pc[p] = "CreateBranch") =>
        \* lookup answered absence and no delete was sent, or
        \/ /\ LookedUp(p)
           /\ resp[p].status = StatusNotFound
           /\ rBranch[p] = NilBranch
        \* lookup returned a branch and the delete by name was answered 200
        \/ /\ resp[p].method = "DELETE"
           /\ resp[p].key = name[p]
           /\ resp[p].status = StatusOK
           /\ rBranch[p] # NilBranch

C14_Step(p) ==
    InForced(p) =>
        \* the lookup is the first request, so there is one lookup
        /\ Sends(p, "GetBranch") =>
              /\ resp[p].method = "none"
              /\ key[p] = name[p]
              /\ Head(stack[p]) = "FCB_got"
        \* a delete is issued exactly when the lookup returned a branch
        /\ pc[p] = "FCB_got" =>
              /\ LookedUp(p)
              /\ rBranch[p] # NilBranch =>
                    /\ resp[p].status = StatusOK
                    /\ pc'[p] = "DeleteBranch"
                    /\ key'[p] = name[p]
                    /\ Head(stack'[p]) = "CreateBranch"
              /\ rBranch[p] = NilBranch =>
                    /\ resp[p].status = StatusNotFound
                    /\ pc'[p] = "CreateBranch"
        \* that delete follows the lookup and leads to the creation on 200 only
        /\ (Sends(p, "DeleteBranch") /\ Head(stack[p]) = "CreateBranch") =>
              /\ LookedUp(p)
              /\ key[p] = name[p]
              /\ resp'[p].status = StatusOK => pc'[p] = "CreateBranch"
              /\ resp'[p].status # StatusOK => Dies(p)
        \* no creation request before CreateBranch is entered
        /\ posts'[p] > posts[p] =>
              pc[p] = "CB_post" /\ resp[p].method \in {"LIST", "POST"}

\* C14: ForcedCreateBranch(name) first makes one lookup GetBranch(name); it
\* issues DeleteBranch(name), by the same key, exactly when the lookup
\* returned a branch; CreateBranch is entered, and the creation request sent,
\* only after the lookup and, when there was a delete, after its 200 answer;
\* when the lookup answered absence no delete is sent.
C14_LookupDeleteCreate ==
    /\ [](\A p \in Procs : C14_State(p))
    /\ [][\A p \in Procs : C14_Step(p)]_vars

C14_Witness ==
    \E p \in Procs :
        /\ op[p].fn = "ForcedCreateBranch"
        /\ pc[p] = "CreateBranch"
        /\ resp[p].method = "DELETE"
        /\ resp[p].status = StatusOK
        /\ rBranch[p].name = name[p]
        /\ Resolve(branches, name[p]) = NilBranch

\* p's GetBranchByName has had its listing answered 200 with a list, or 404,
\* and has finished its scan
Scanned(p) ==
    /\ want[p] # NoString
    /\ resp[p].method = "LIST"
    /\ \/ resp[p].status = StatusOK /\ resp[p].ok
       \/ resp[p].status = StatusNotFound
    /\ pc[p] # "GBN_scan"

\* the branches GetBranches returned to p: none after a 404
Listed(p) ==
    IF resp[p].status = StatusNotFound THEN <<>> ELSE resp[p].body.list

\* C15: for every outcome of GetBranches (absence after a 404 listing, an
\* empty list, a non-empty list) GetBranchByName(name) returns the first
\* listed branch whose name is name, absence when none matches, and does not
\* end abnormally.
C15_ByNameFirstMatchOrAbsence ==
    \A p \in Procs :
        Scanned(p) =>
            LET list == Listed(p)
                hits == {i \in 1..Len(list) : list[i].name = want[p]}
            IN
            /\ pc[p] # "panic"
            /\ hits = {} => rBranch[p] = NilBranch
            /\ hits # {} =>
                  \E i \in hits :
                      /\ rBranch[p] = list[i]
                      /\ \A j \in hits : i <= j

\* the callback of p's UsingBranch was invoked and did not return: it
\* panicked or ended its goroutine
Aborted(p) ==
    /\ op[p].fn \in UsingFns
    /\ Invoked(p)
    /\ \/ pc[p] \in {"panic", "goexit"}
       \/ \E i \in 1..Len(stack[p]) : stack[p][i] \in {"panic", "goexit"}

\* C16: when the callback of UsingBranch aborts (a panic, or a test abort
\* inside it), UsingBranch sends no delete, also when cleanup is not
\* suppressed: the call chain has ended, its last request is the creation,
\* and the created branch is still in the project.
C16_AbortSkipsCleanup ==
    \A p \in Procs :
        Aborted(p) =>
            /\ pc[p] \in {"panic", "goexit"}
            /\ resp[p].method = "POST"
            /\ resp[p].body = created[p]
            /\ created[p].branch \in branches

C16_Witness ==
    \E p \in Procs :
        /\ Aborted(p)
        /\ pc[p] = "goexit"
        /\ ~op[p].noCleanup
        /\ created[p].branch \in branches

\* the branch a delete of p was about: the stale branch found by the lookup
\* of ForcedCreateBranch, or the branch UsingBranch created
Target(p) ==
    IF created[p] # NilCreated THEN created[p].branch ELSE rBranch[p]

C17_State(p) ==
    (/\ op[p].fn \in ForcedFns
     /\ pc[p] # "idle"
     /\ resp[p].method = "DELETE"
     /\ resp[p].status = StatusLocked) =>
        /\ pc[p] = "fatal"
        /\ posts[p] = 0
        /\ resp[p].body = Target(p)
        /\ Target(p) \in branches

C17_Step(p) ==
    (Sends(p, "DeleteBranch") /\ resp'[p].status = StatusLocked) =>
        /\ Dies(p)
        /\ resp'[p].method = "DELETE"
        /\ branches' = branches

\* C17: the lock retry is for the creation request only: a DeleteBranch
\* answered 423, the delete of the stale branch in ForcedCreateBranch or the
\* cleanup delete of UsingBranch, is not sent again; the process ends fatally
\* and the branch stays in the project.
C17_LockedDeleteIsFatal ==
    /\ [](\A p \in Procs : C17_State(p))
    /\ [][\A p \in Procs : C17_Step(p)]_vars

C17_Witness ==
    \E p \in Procs :
        /\ pc[p] = "fatal"
        /\ op[p].fn = "ForcedCreateBranch"
        /\ resp[p].method = "DELETE"
        /\ resp[p].status = StatusLocked
        /\ resp[p].key = name[p]
        /\ rBranch[p] \in branches

\* the callback of q's UsingBranch is running, or has returned with the
\* cleanup delete still to be answered
Holding(q) ==
    /\ op[q].fn \in UsingFns
    /\ created[q] # NilCreated
    /\ pc[q] \in {"UB_do", "DeleteBranch"}

\* the keys of the parent branch
ParentKeys == {defaultBranch, MainBranch.id}

\* nm reads like an identifier the service gives to a branch
IsId(nm) == \E n \in 1..Len(Digits) : nm = BranchID(n)

\* the invocations of p and q use distinct names, none a key of the parent
Apart(p, q) ==
    /\ p # q
    /\ op[p].fn \in UsingFns
    /\ op[q].fn \in UsingFns
    /\ name[p] # name[q]
    /\ name[p] \notin ParentKeys
    /\ name[q] \notin ParentKeys

\* the last delete of p was addressed by its name or by the identifier of
\* the branch it created
OwnDelete(p) ==
    resp[p].method = "DELETE" =>
        \/ resp[p].key = name[p]
        \/ created[p] # NilCreated /\ resp[p].key = created[p].branch.id

\* C18: for concurrent UsingBranch invocations with pairwise distinct names,
\* none the parent's name or identifier, every delete of an invocation is
\* addressed by its own name or by the identifier of the branch it created,
\* and the branch handed to a callback is in the project from the start of
\* the callback until the invocation's own cleanup.
C18_DistinctNamesKeepApart ==
    \A p, q \in Procs :
        Apart(p, q) =>
            /\ OwnDelete(p)
            /\ Holding(q) => created[q].branch \in branches

\* C18 amended: the same, for names of which none is the identifier of a
\* branch either.
C18_DistinctNamesNoIdentifier ==
    \A p, q \in Procs :
        (Apart(p, q) /\ ~IsId(name[p]) /\ ~IsId(name[q])) =>
            /\ OwnDelete(p)
            /\ Holding(q) => created[q].branch \in branches

C18_Witness ==
    \E p, q \in Procs :
        /\ Apart(p, q)
        /\ ~IsId(name[p])
        /\ ~IsId(name[q])
        /\ pc[q] = "UB_do"
        /\ created[q].branch \in branches
        /\ pc[p] = "exit"
        /\ resp[p].method = "DELETE"
        /\ resp[p].status = StatusOK
        /\ resp[p].key = created[p].branch.id
        /\ created[p].branch.id # created[q].branch.id

\* the invocations of p and q use the same name
SameName(p, q) ==
    /\ p # q
    /\ op[p].fn \in UsingFns
    /\ op[q].fn \in UsingFns
    /\ pc[p] # "idle"
    /\ pc[q] # "idle"
    /\ name[p] # NoString
    /\ name[p] = name[q]

\* p has the answer to a delete it sends
Deletes(p) == Sends(p, "DeleteBranch") /\ resp'[p].method = "DELETE"

\* the branch q created is in the project and stays
Spares(q) ==
    (created[q] # NilCreated /\ created[q].branch \in branches) =>
        created[q].branch \in branches'

\* C19: for two concurrent UsingBranch invocations with the same name, no
\* delete of one removes the branch the other created while the other's
\* callback is running, and neither ends fatally on a delete answered 404.
C19_SameNameKeepApart ==
    /\ [](\A p \in Procs :
            ~(/\ op[p].fn \in UsingFns
              /\ pc[p] = "fatal"
              /\ resp[p].method = "DELETE"
              /\ resp[p].status = StatusNotFound))
    /\ [][\A p, q \in Procs :
            (SameName(p, q) /\ Deletes(p) /\ pc[q] = "UB_do") => Spares(q)]_vars

\* C19 amended: when the name is not the identifier of a branch, the cleanup
\* delete of one invocation, addressed by the identifier of the branch it
\* created, removes no branch but that one, so never the branch the other
\* created; when it is answered 404 the invocation ends fatally.
C19_CleanupSparesOther ==
    [][\A p, q \in Procs :
        (/\ SameName(p, q)
         /\ ~IsId(name[p])
         /\ Deletes(p)
         /\ created[p] # NilCreated) =>
            /\ resp'[p].key = created[p].branch.id
            /\ branches \ branches' \subseteq {created[p].branch}
            /\ Spares(q)
            /\ resp'[p].status = StatusNotFound => Dies(p)]_vars

C19_Witness ==
    \E p, q \in Procs :
        /\ SameName(p, q)
        /\ ~IsId(name[p])
        /\ pc[p] = "fatal"
        /\ resp[p].method = "DELETE"
        /\ resp[p].status = StatusNotFound
        /\ resp[p].key = created[p].branch.id
        /\ pc[q] = "UB_do"
        /\ created[q].branch \in branches
        /\ created[q].branch.name = created[p].branch.name

====
